---------------------------- MODULE Spec2Model ----------------------------
(***************************************************************************)
(* A model of netcdftime/netcdftime.py: the calendar conversion functions  *)
(* (civil date <-> fractional Julian day, per calendar), the utime class   *)
(* (constructor, date2num, num2date) and the index resolution of           *)
(* time2index (guess, verify, bisect).                                     *)
(*                                                                         *)
(* Numbers.  The time coordinate values of the index resolver are small    *)
(* integers; the quotient (num - t0) / dt is then an exact rational and    *)
(* its truncation, ceiling and rounding are computed on the pair           *)
(* (numerator, denominator).  A day count (a Julian day, a double in the    *)
(* code) is a whole number of days plus a number of ticks of 10 ms: the    *)
(* dates converted carry whole seconds, so every step of the conversions   *)
(* is exact on ticks; the rounding of the doubles, below a tick, is not    *)
(* modelled.  Division is Python 3's: / is the true division.              *)
(***************************************************************************)
EXTENDS Integers, Sequences, FiniteSets, TLC

(***************************************************************************)
(* Bounds of the index resolver's inputs: the time variable holds some of  *)
(* the even values 0, 2, ..., 2 * MaxStep, a batch at most MaxBatch        *)
(* queries, each an integer of -1 .. 2 * MaxStep + 1 (so that a query can  *)
(* be the midpoint of two adjacent values).                                *)
(***************************************************************************)
MaxStep == 4
MaxBatch == 2

VARIABLES
    nctime,     \* time2index: the time variable, a strictly ascending sequence
    times,      \* time2index: the batch of queried times (num)
    select,     \* time2index: the selection method
    index,      \* time2index: the index array being computed
    ipc,        \* time2index: position: "start", "guessed", "bisect", "done", "error"
    ierr,       \* time2index: the ValueError raised, "none" when none
    path        \* time2index: "guess" when the guessed index was returned, "bisect" when bisection ran

ivars == <<nctime, times, select, index, ipc, ierr, path>>

VARIABLES
    calendar,   \* the calendar name
    dates,      \* the 'datetime-like' objects to convert, a sequence
    jds,        \* the Julian days computed from dates
    outs,       \* the 'datetime-like' objects computed back from jds
    cpc,        \* position: "input", "counted", "rejected", "dated", "failed"
    cerr        \* the ValueError raised, "none" when none

cvars == <<calendar, dates, jds, outs, cpc, cerr>>

VARIABLES
    args,       \* utime: the arguments of the constructor, [unit_string, calendar]
    self,       \* utime: the instance, [calendar, units, tzoffset, origin, jd0]
    udates,     \* utime: the caller's 'datetime-like' objects, a sequence
    time_value, \* utime: the time values date2num returned
    back,       \* utime: the 'datetime-like' objects num2date returned
    upc,        \* utime: position: "new", "ready", "numbered", "dated", or "failed"
    uerr        \* utime: the ValueError raised, "none" when none

uvars == <<args, self, udates, time_value, back, upc, uerr>>

vars == <<ivars, cvars, uvars>>

\* no date, no unit string and no instance: the values of the utime variables
\* before the constructor has run
NoDate == [year |-> 0, month |-> 0, day |-> 0,
           hour |-> 0, minute |-> 0, second |-> 0, microsecond |-> 0]
NoUnitString == [units |-> "none", tzoffset |-> 0, origin |-> NoDate]
NoUtime == [calendar |-> "none", units |-> "none", tzoffset |-> 0,
            origin |-> NoDate, jd0 |-> [w |-> 0, t |-> 0]]

(***************************************************************************)
(* Integer arithmetic.                                                     *)
(***************************************************************************)
\* int(a / b) for b > 0: truncation toward zero (numpy.array(x, int), np.int32(x))
TruncDiv(a, b) == IF a >= 0 THEN a \div b ELSE -((-a) \div b)

\* numpy.ceil(a / b) for b > 0
CeilDiv(a, b) == -((-a) \div b)

\* numpy.around(a / b) for b > 0: rounds to the nearest integer, a half to the even one
AroundDiv(a, b) ==
    LET q == a \div b
        r == a % b
    IN  IF 2 * r < b THEN q
        ELSE IF 2 * r > b THEN q + 1
        ELSE IF q % 2 = 0 THEN q ELSE q + 1

\* numpy.clip(x, lo, hi)
Clip(x, lo, hi) == IF x < lo THEN lo ELSE IF x > hi THEN hi ELSE x

(***************************************************************************)
(* time2index                                                              *)
(***************************************************************************)
Selects == {"exact", "before", "after", "nearest", "closest"}

\* nctime[i] with Python's indexing: from 0, a negative index counts from the end
At(nct, i) == IF i >= 0 THEN nct[i + 1] ELSE nct[Len(nct) + i + 1]

\* the stride the guess assumes: t1 - t0, or 1 for a variable of one element
Stride(nct) == IF Len(nct) >= 2 THEN nct[2] - nct[1] ELSE 1

\* the index inferred from the starting time and the stride
GuessIndex(num, nct, sel) ==
    LET t0 == nct[1]
        dt == Stride(nct)
    IN  [k \in DOMAIN num |->
            IF sel \in {"exact", "before"} THEN TruncDiv(num[k] - t0, dt)
            ELSE IF sel = "after" THEN CeilDiv(num[k] - t0, dt)
            ELSE AroundDiv(num[k] - t0, dt)]

\* a variant of CheckExact accepting an indexed time at or before the queried one
CheckExactOrEarlier(indices, tms, nct) ==
    \A k \in DOMAIN indices : At(nct, indices[k]) <= tms[k]

\* _check_index, select == 'exact': every indexed time is the queried one
CheckExact(indices, tms, nct) ==
    \A k \in DOMAIN indices : At(nct, indices[k]) = tms[k]

\* a variant of CheckBefore that does not look at the next time
CheckBeforeOnly(indices, tms, nct) ==
    \A k \in DOMAIN indices : At(nct, indices[k]) <= tms[k]

\* _check_index, select == 'before': t <= times and the next time is > times
CheckBefore(indices, tms, nct) ==
    LET N == Len(nct)
    IN  /\ \A k \in DOMAIN indices : At(nct, indices[k]) <= tms[k]
        /\ \A k \in DOMAIN indices :
              At(nct, Clip(indices[k] + 1, 0, N - 1)) > tms[k]

\* a variant of CheckAfter that does not look at the previous time
CheckAfterOnly(indices, tms, nct) ==
    \A k \in DOMAIN indices : At(nct, indices[k]) >= tms[k]

\* _check_index, select == 'after': t >= times and the previous time is < times
CheckAfter(indices, tms, nct) ==
    LET N == Len(nct)
    IN  /\ \A k \in DOMAIN indices : At(nct, indices[k]) >= tms[k]
        /\ \A k \in DOMAIN indices :
              At(nct, Clip(indices[k] - 1, 0, N - 1)) < tms[k]

\* _check_index, select == 'nearest': |times - t| is at most the distance from
\* t to the next time and at most the distance from t to the previous one
CheckNearest(indices, tms, nct) ==
    LET N == Len(nct)
        t(k) == At(nct, indices[k])
        ta(k) == At(nct, Clip(indices[k] + 1, 0, N - 1))
        tb(k) == At(nct, Clip(indices[k] - 1, 0, N - 1))
        delta_check(k) == IF tms[k] - t(k) < 0 THEN t(k) - tms[k] ELSE tms[k] - t(k)
    IN  /\ \A k \in DOMAIN indices : delta_check(k) <= ta(k) - t(k)
        /\ \A k \in DOMAIN indices : delta_check(k) <= t(k) - tb(k)

\* a variant of check_index that verifies a select it does not know as 'nearest'
check_indexLenient(indices, tms, nct, sel) ==
    LET N == Len(nct)
    IN  IF \E k \in DOMAIN indices : indices[k] < 0 THEN FALSE
        ELSE IF \E k \in DOMAIN indices : indices[k] >= N THEN FALSE
        ELSE IF sel = "exact" THEN CheckExact(indices, tms, nct)
        ELSE IF sel = "before" THEN CheckBefore(indices, tms, nct)
        ELSE IF sel = "after" THEN CheckAfter(indices, tms, nct)
        ELSE CheckNearest(indices, tms, nct)

\* _check_index: whether the indices correspond to the times (None, which is
\* false, for a select it does not know)
check_index(indices, tms, nct, sel) ==
    LET N == Len(nct)
    IN  IF \E k \in DOMAIN indices : indices[k] < 0 THEN FALSE
        ELSE IF \E k \in DOMAIN indices : indices[k] >= N THEN FALSE
        ELSE IF sel = "exact" THEN CheckExact(indices, tms, nct)
        ELSE IF sel = "before" THEN CheckBefore(indices, tms, nct)
        ELSE IF sel = "after" THEN CheckAfter(indices, tms, nct)
        ELSE IF sel = "nearest" THEN CheckNearest(indices, tms, nct)
        ELSE FALSE

\* bisect.bisect_right and bisect.bisect_left on an ascending sequence
bisect_right(nct, x) == Cardinality({i \in DOMAIN nct : nct[i] <= x})
bisect_left(nct, x) == Cardinality({i \in DOMAIN nct : nct[i] < x})

\* a variant of RangeError testing the end of the variable first
RangeErrorAfterFirst(sel, before, after) ==
    IF sel \in {"after", "exact"} /\ (\E k \in DOMAIN after : after[k])
        THEN "OutOfRangeAfter"
    ELSE IF sel \in {"before", "exact"} /\ (\E k \in DOMAIN before : before[k])
        THEN "OutOfRangeBefore"
    ELSE "none"

\* the ValueError of the bisection method for times outside the variable:
\* before (after) tell, per time, whether it is before the first (after the last) time
RangeError(sel, before, after) ==
    IF sel \in {"before", "exact"} /\ (\E k \in DOMAIN before : before[k])
        THEN "OutOfRangeBefore"
    ELSE IF sel \in {"after", "exact"} /\ (\E k \in DOMAIN after : after[k])
        THEN "OutOfRangeAfter"
    ELSE "none"

\* a variant of CorrectBefore that leaves the indices as they are
LeaveBefore(idx, before) == idx

\* index[before] = 0: correct for indices equal to -1
CorrectBefore(idx, before) == [k \in DOMAIN idx |-> IF before[k] THEN 0 ELSE idx[k]]

\* the bisection method: [err, index]; no index array is returned with an error
BisectIndex(num, nct, sel) ==
    LET N == Len(nct)
        K == DOMAIN num
        before == [k \in K |-> bisect_right(nct, num[k]) = 0]
        left == [k \in K |-> bisect_left(nct, num[k])]
        after == [k \in K |-> left[k] = N]
        \* index[after] = N - 1
        idx1 == [k \in K |-> IF after[k] THEN N - 1 ELSE left[k]]
        mismatch == [k \in K |-> At(nct, idx1[k]) # num[k]]
        \* select == 'before': index[after] = N; index[mismatch] -= 1
        idxBefore == [k \in K |->
            (IF after[k] THEN N ELSE idx1[k]) - (IF mismatch[k] THEN 1 ELSE 0)]
        \* select == 'nearest': one less where the time is nearest to the left
        nearest_to_left == [k \in K |->
            mismatch[k]
            /\ 2 * num[k] < At(nct, idx1[k] - 1) + At(nct, idx1[k])]
        idxNearest == [k \in K |-> IF nearest_to_left[k] THEN idx1[k] - 1 ELSE idx1[k]]
        idx2 == IF sel = "before" THEN idxBefore
                ELSE IF sel = "nearest" THEN idxNearest
                ELSE idx1
        idx3 == CorrectBefore(idx2, before)
        range == RangeError(sel, before, after)
    IN  IF range # "none" THEN [err |-> range, index |-> <<>>]
        ELSE IF sel = "exact" /\ (\E k \in K : mismatch[k])
            THEN [err |-> "NoExactMatch", index |-> <<>>]
        ELSE IF sel \notin {"exact", "before", "after", "nearest"}
            THEN [err |-> "BadSelect", index |-> <<>>]
        ELSE [err |-> "none", index |-> idx3]

\* time2index as a whole: [err, index, path]
time2index(tms, nct, sel) ==
    LET guess == GuessIndex(tms, nct, sel)
        bis == BisectIndex(tms, nct, sel)
    IN  IF check_index(guess, tms, nct, sel)
            THEN [err |-> "none", index |-> guess, path |-> "guess"]
            ELSE [err |-> bis.err, index |-> bis.index, path |-> "bisect"]

(***************************************************************************)
(* The inputs of time2index.                                               *)
(***************************************************************************)
TimeValues == {2 * i : i \in 0 .. MaxStep}
Queries == -1 .. (2 * MaxStep + 1)

\* the ascending sequence of the elements of a non-empty set of integers
RECURSIVE Ascending(_)
Ascending(S) ==
    IF S = {} THEN <<>>
    ELSE LET m == CHOOSE x \in S : \A y \in S : x <= y
         IN  <<m>> \o Ascending(S \ {m})

Series == {Ascending(S) : S \in (SUBSET TimeValues) \ {{}}}
Batches == UNION {[1 .. n -> Queries] : n \in 1 .. MaxBatch}

IndexInit ==
    /\ nctime \in Series
    /\ times \in Batches
    /\ select \in Selects
    /\ index = <<>>
    /\ ipc = "start"
    /\ ierr = "none"
    /\ path = "none"
    /\ calendar = "standard"
    /\ dates = <<>>
    /\ jds = <<>>
    /\ outs = <<>>
    /\ cpc = "idle"
    /\ cerr = "none"
    /\ args = [unit_string |-> NoUnitString, calendar |-> "standard"]
    /\ self = NoUtime
    /\ udates = <<>>
    /\ time_value = <<>>
    /\ back = <<>>
    /\ upc = "idle"
    /\ uerr = "none"

\* time2index, lines 1019-1035: the guess
Guess ==
    /\ ipc = "start"
    /\ index' = GuessIndex(times, nctime, select)
    /\ ipc' = "guessed"
    /\ UNCHANGED <<nctime, times, select, ierr, path>>
    /\ UNCHANGED cvars
    /\ UNCHANGED uvars

\* time2index, line 1040 and 1090: the guess verified is returned
Verify ==
    /\ ipc = "guessed"
    /\ IF check_index(index, times, nctime, select)
          THEN ipc' = "done" /\ path' = "guess"
          ELSE ipc' = "bisect" /\ path' = "bisect"
    /\ UNCHANGED <<nctime, times, select, index, ierr>>
    /\ UNCHANGED cvars
    /\ UNCHANGED uvars

\* time2index, lines 1042-1090: the bisection method
Bisect ==
    /\ ipc = "bisect"
    /\ LET r == BisectIndex(times, nctime, select)
       IN  /\ index' = r.index
           /\ ierr' = r.err
           /\ ipc' = IF r.err = "none" THEN "done" ELSE "error"
    /\ UNCHANGED <<nctime, times, select, path>>
    /\ UNCHANGED cvars
    /\ UNCHANGED uvars

IndexNext == Guess \/ Verify \/ Bisect

IndexSpec == IndexInit /\ [][IndexNext]_vars

(***************************************************************************)
(* Day counts.  A day count is [w, t]: w whole days and t ticks, with      *)
(* 0 <= t < TicksPerDay, standing for w + t / TicksPerDay.                 *)
(***************************************************************************)
TicksPerSecond == 10 * 10
TicksPerMinute == 60 * TicksPerSecond
TicksPerHour == 60 * TicksPerMinute
TicksPerDay == 24 * TicksPerHour
HalfDay == TicksPerDay \div 2

\* the day count of w days and t ticks, t any integer
JD(w, t) == [w |-> w + (t \div TicksPerDay), t |-> t % TicksPerDay]

JdLess(a, b) == a.w < b.w \/ (a.w = b.w /\ a.t < b.t)

\* a variant of GregorianStart one day early: 2299169.5
GregorianStartDayEarly == [w |-> 2299169, t |-> HalfDay]

\* 2299170.5: 1582 October 15 reckoned in the Julian calendar
GregorianStart == [w |-> 2299170, t |-> HalfDay]

\* a variant of JulianEnd later than every date converted
JulianEndLate == [w |-> 9999999, t |-> HalfDay]

\* 2299160.5: 1582 October 5 in the Julian calendar (October 15 in the Gregorian)
JulianEnd == [w |-> 2299160, t |-> HalfDay]

\* hour / 24.0 + minute / 1440.0 + (second + microsecond / 1.e6) / 86400.0, in ticks
TimeOfDay(d) ==
    ((d.hour * 60 + d.minute) * 60 + d.second) * TicksPerSecond
        + (d.microsecond * TicksPerSecond) \div 1000000

\* a variant of MeeusYear without the shift of January and February
MeeusYearUnshifted(d) == d.year

\* Meeus: January and February are months 13 and 14 of the year before
MeeusMonth(d) == IF d.month < 3 THEN d.month + 12 ELSE d.month
MeeusYear(d) == IF d.month < 3 THEN d.year - 1 ELSE d.year

\* 365. * year + int32(0.25 * year + 2000.) + int32(30.6001 * (month + 1))
\*     + day + 1718994.5
JulianDayBase(d) ==
    JD(365 * MeeusYear(d) + TruncDiv(MeeusYear(d) + 8000, 4)
          + TruncDiv(306001 * (MeeusMonth(d) + 1), 10000) + d.day + 1718994,
       HalfDay + TimeOfDay(d))

\* B = 2 - A + int32(A / 4) with A = int64(year / 100)
GregorianB(d) ==
    LET A == TruncDiv(MeeusYear(d), 100)
    IN  2 - A + TruncDiv(A, 4)

MixedCalendars == {"standard", "gregorian"}

\* JulianDayFromDate on a sequence of dates: [err, jd]
JulianDayFromDate(date, cal) ==
    LET jd == [k \in DOMAIN date |-> JulianDayBase(date[k])]
        gregorian == [k \in DOMAIN date |->
                         JD(jd[k].w + GregorianB(date[k]), jd[k].t)]
    IN  IF cal \in MixedCalendars THEN
            \* np.min(jd) >= 2299170.5
            IF \A k \in DOMAIN date : ~JdLess(jd[k], GregorianStart)
                THEN [err |-> "none", jd |-> gregorian]
            \* np.max(jd) < 2299160.5
            ELSE IF \A k \in DOMAIN date : JdLess(jd[k], JulianEnd)
                THEN [err |-> "none", jd |-> jd]
            ELSE [err |-> "InvalidDate", jd |-> <<>>]
        ELSE IF cal = "proleptic_gregorian" THEN [err |-> "none", jd |-> gregorian]
        ELSE IF cal = "julian" THEN [err |-> "none", jd |-> jd]
        ELSE [err |-> "UnknownCalendar", jd |-> <<>>]

\* int(yearlen * (year + 4716)) + int(30.6001 * (month + 1)) + day - 1524.5
FixedYearDayFromDate(d, yearlen) ==
    JD(yearlen * (MeeusYear(d) + 4716)
          + TruncDiv(306001 * (MeeusMonth(d) + 1), 10000) + d.day - 1525,
       HalfDay + TimeOfDay(d))

NoLeapDayFromDate(d) == FixedYearDayFromDate(d, 365)

AllLeapFromDate(d) == FixedYearDayFromDate(d, 366)

\* a variant of Day360FromDate with the month lengths of the Meeus formula
Day360FromDateMeeus(d) == FixedYearDayFromDate(d, 360)

\* int(360. * (year + 4716)) + int(30. * (month - 1)) + day
Day360FromDate(d) ==
    JD(360 * (d.year + 4716) + 30 * (d.month - 1) + d.day, TimeOfDay(d))

(***************************************************************************)
(* Julian day to date.                                                     *)
(***************************************************************************)
\* 0.00005 day, added before the day is rounded
Nudge == (5 * TicksPerDay) \div 100000

\* Z = int32(np.round(julian + 0.00005)): the nearest integer, a half to the even one
RoundedDay(j) ==
    LET s == JD(j.w, j.t + Nudge)
    IN  IF s.t > HalfDay \/ (s.t = HalfDay /\ s.w % 2 = 1) THEN s.w + 1 ELSE s.w

\* the days of the months of the Gregorian calendar, as datetime.datetime checks them
GregorianDaysInMonth(year, month) ==
    IF month = 2
        THEN IF year % 4 = 0 /\ (year % 100 # 0 \/ year % 400 = 0) THEN 29 ELSE 28
    ELSE IF month \in {4, 6, 9, 11} THEN 30 ELSE 31

\* whether datetime.datetime(year, month, day, hour, minute, second, microsecond)
\* is a date of the standard library (it raises ValueError otherwise)
RealDatetimeOK(f) ==
    /\ f.year \in 1 .. 9999
    /\ f.month \in 1 .. 12
    /\ f.day >= 1 /\ f.day <= GregorianDaysInMonth(f.year, f.month)
    /\ f.hour \in 0 .. 23 /\ f.minute \in 0 .. 59 /\ f.second \in 0 .. 59
    /\ f.microsecond \in 0 .. 999999

\* calendar in 'proleptic_gregorian': a substring test, true of the calendar
\* names 'proleptic_gregorian' and 'gregorian'
InProlepticGregorian(cal) == cal \in {"proleptic_gregorian", "gregorian"}

\* A = Z + 1 + alpha - int64(alpha / 4.), with
\* alpha = int64(((Z - 1867216.) - 0.25) / 36524.25)
GregorianA(Z) ==
    LET alpha == TruncDiv(4 * (Z - 1867216) - 1, 146097)
    IN  Z + 1 + alpha - TruncDiv(alpha, 4)

\* A by calendar: the mixed calendars keep Z before the switch (ind_before)
CalendarA(j, cal, Z) ==
    IF cal \in MixedCalendars
        THEN IF JdLess(j, JulianEnd) THEN Z ELSE GregorianA(Z)
    ELSE IF cal = "proleptic_gregorian" THEN GregorianA(Z)
    ELSE Z

\* leap[year % 4 == 0] = 1, taken back for the century years that are not leap
LeapYear(year, j, cal) ==
    LET century == year % 100 = 0 /\ year % 400 # 0
    IN  /\ year % 4 = 0
        /\ IF cal = "proleptic_gregorian" THEN ~century
           ELSE IF cal \in MixedCalendars THEN ~(century /\ JdLess(j, JulianEnd))
           ELSE TRUE

\* month, year, dayofyr and the time of day, from B, C, D, E and the day fraction F
DateFields(j, cal, F, B, C, D, E) ==
    LET \* clip(B - D - int64(30.6001 * E) + F, 1, None), in ticks
        dayTicks == (B - D - TruncDiv(306001 * E, 10000)) * TicksPerDay + F
        nday == B - D - 123
        dayofyr == IF nday <= 305 THEN nday + 60 ELSE nday - 305
        month == IF E - 1 > 12 THEN E - 13 ELSE E - 1
        year1 == IF month > 2 THEN C - 4716 ELSE C - 4715
        year == IF year1 <= 0 THEN year1 - 1 ELSE year1
        \* eps, at most 1e-5, is less than a tick of an hour or of a minute
        hour == Clip(TruncDiv(F, TicksPerHour), 0, 23)
        F2 == F - hour * TicksPerHour
        minute == Clip(TruncDiv(F2, TicksPerMinute), 0, 59)
        second == IF F2 - minute * TicksPerMinute < 0 THEN 0
                  ELSE F2 - minute * TicksPerMinute
    IN  [year |-> year, month |-> month,
         day |-> (IF dayTicks < TicksPerDay THEN TicksPerDay ELSE dayTicks)
                     \div TicksPerDay,
         hour |-> hour, minute |-> minute,
         second |-> second \div TicksPerSecond,
         microsecond |-> (second % TicksPerSecond) * (1000000 \div TicksPerSecond),
         \* int32(fmod(int32(julian + 1.5), 7))
         dayofwk |-> JD(j.w + 1, j.t + HalfDay).w % 7,
         dayofyr |-> IF LeapYear(year, j, cal) /\ month > 2 THEN dayofyr + 1
                     ELSE dayofyr]

\* E = int64((B - D) / 30.6001)
FieldsFromD(j, cal, F, B, C, D) ==
    DateFields(j, cal, F, B, C, D, TruncDiv((B - D) * 10000, 306001))

\* D = int64(365. * C + int64(0.25 * C))
FieldsFromC(j, cal, F, B, C) ==
    FieldsFromD(j, cal, F, B, C, 365 * C + TruncDiv(C, 4))

\* C = int64(6680. + ((B - 2439870.) - 122.1) / 365.25)
FieldsFromB(j, cal, F, B) ==
    FieldsFromC(j, cal, F, B, TruncDiv(20 * B - 2442, 7305))

\* F = julian + 0.5 - Z, in ticks, and B = A + 1524
FieldsFromZ(j, cal, Z) ==
    FieldsFromB(j, cal, (j.w - Z) * TicksPerDay + j.t + HalfDay,
                CalendarA(j, cal, Z) + 1524)

\* the fields DateFromJulianDay computes for one Julian day
JulianFields(j, cal) == FieldsFromZ(j, cal, RoundedDay(j))

\* a 'real' datetime: no dayofwk and dayofyr attributes
RealDatetime(f) ==
    [year |-> f.year, month |-> f.month, day |-> f.day, hour |-> f.hour,
     minute |-> f.minute, second |-> f.second, microsecond |-> f.microsecond,
     real |-> TRUE]

\* a 'phony' datetime, an instance of netcdftime.datetime
PhonyDatetime(f) ==
    [year |-> f.year, month |-> f.month, day |-> f.day, hour |-> f.hour,
     minute |-> f.minute, second |-> f.second, microsecond |-> f.microsecond,
     dayofwk |-> f.dayofwk, dayofyr |-> f.dayofyr, real |-> FALSE]

\* DateFromJulianDay on a sequence of Julian days: [err, date]
DateFromJulianDay(julian, cal) ==
    LET f == [k \in DOMAIN julian |-> JulianFields(julian[k], cal)]
        ind_before == {k \in DOMAIN julian : JdLess(julian[k], JulianEnd)}
    IN  IF \E k \in DOMAIN julian : julian[k].w < 0
            THEN [err |-> "InvalidDayCount", date |-> <<>>]
        ELSE IF cal \notin MixedCalendars \cup {"proleptic_gregorian", "julian"}
            THEN [err |-> "UnknownCalendar", date |-> <<>>]
        ELSE IF InProlepticGregorian(cal)
                \/ (cal \in MixedCalendars /\ ind_before = {})
            THEN IF \A k \in DOMAIN julian : RealDatetimeOK(f[k])
                    THEN [err |-> "none",
                          date |-> [k \in DOMAIN julian |-> RealDatetime(f[k])]]
                    ELSE [err |-> "ValueError", date |-> <<>>]
        ELSE [err |-> "none", date |-> [k \in DOMAIN julian |-> PhonyDatetime(f[k])]]

\* _DateFromNoLeapDay and _DateFromAllLeap: years of yearlen days, dayofyr one
\* more after February when leapday is 1
DateFromFixedYearDay(j, yearlen, leapday) ==
    LET s == JD(j.w, j.t + HalfDay)
        Z == s.w
        F == s.t
        B == Z + 1524
        \* int((B - 122.1) / yearlen)
        C == TruncDiv(10 * B - 1221, 10 * yearlen)
        D == yearlen * C
        E == TruncDiv((B - D) * 10000, 306001)
        day == B - D - TruncDiv(306001 * E, 10000)
        nday == B - D - 123
        dayofyr == IF nday <= 305 THEN nday + 60 ELSE nday - 305
        month == IF E < 14 THEN E - 1 ELSE E - 13
        year == IF month > 2 THEN C - 4716 ELSE C - 4715
    IN  [year |-> year, month |-> month, day |-> day,
         hour |-> F \div TicksPerHour,
         minute |-> (F % TicksPerHour) \div TicksPerMinute,
         second |-> (F % TicksPerMinute) \div TicksPerSecond,
         microsecond |-> (F % TicksPerSecond) * (1000000 \div TicksPerSecond),
         dayofwk |-> JD(j.w + 1, j.t + HalfDay).w % 7,
         dayofyr |-> IF month > 2 THEN dayofyr + leapday ELSE dayofyr,
         real |-> FALSE]

DateFromNoLeapDay(j) == DateFromFixedYearDay(j, 365, 0)

DateFromAllLeap(j) == DateFromFixedYearDay(j, 366, 1)

\* _DateFrom360Day
DateFrom360Day(j) ==
    LET Z == j.w
        F == j.t
        \* int((Z - 0.5) / 360.) - 4716
        year == TruncDiv(2 * Z - 1, 720) - 4716
        dayofyr == Z - (year + 4716) * 360
        \* int((dayofyr - 0.5) / 30) + 1
        month == TruncDiv(2 * dayofyr - 1, 60) + 1
    IN  [year |-> year, month |-> month, day |-> dayofyr - (month - 1) * 30,
         hour |-> F \div TicksPerHour,
         minute |-> (F % TicksPerHour) \div TicksPerMinute,
         second |-> (F % TicksPerMinute) \div TicksPerSecond,
         microsecond |-> (F % TicksPerSecond) * (1000000 \div TicksPerSecond),
         dayofwk |-> -1, dayofyr |-> dayofyr, real |-> FALSE]

(***************************************************************************)
(* The conversions as the utime methods select them by calendar.           *)
(***************************************************************************)
calendars == {"standard", "gregorian", "proleptic_gregorian", "noleap",
              "julian", "all_leap", "365_day", "366_day", "360_day"}

\* date2num: the Julian days of a sequence of dates, [err, jd]
ToDayCount(date, cal) ==
    IF cal \in {"julian", "standard", "gregorian", "proleptic_gregorian"}
        THEN JulianDayFromDate(date, cal)
    ELSE IF cal \in {"noleap", "365_day"} THEN
        IF \E k \in DOMAIN date : date[k].month = 2 /\ date[k].day = 29
            THEN [err |-> "InvalidDate", jd |-> <<>>]
            ELSE [err |-> "none", jd |-> [k \in DOMAIN date |-> NoLeapDayFromDate(date[k])]]
    ELSE IF cal \in {"all_leap", "366_day"}
        THEN [err |-> "none", jd |-> [k \in DOMAIN date |-> AllLeapFromDate(date[k])]]
    ELSE IF \E k \in DOMAIN date : date[k].day > 30
        THEN [err |-> "InvalidDate", jd |-> <<>>]
        ELSE [err |-> "none", jd |-> [k \in DOMAIN date |-> Day360FromDate(date[k])]]

\* num2date: the dates of a sequence of Julian days, [err, date]
FromDayCount(jd, cal) ==
    IF cal \in {"julian", "standard", "gregorian", "proleptic_gregorian"}
        THEN DateFromJulianDay(jd, cal)
    ELSE IF \E k \in DOMAIN jd : jd[k].w < 0
        THEN [err |-> "InvalidDayCount", date |-> <<>>]
    ELSE IF cal \in {"noleap", "365_day"}
        THEN [err |-> "none", date |-> [k \in DOMAIN jd |-> DateFromNoLeapDay(jd[k])]]
    ELSE IF cal \in {"all_leap", "366_day"}
        THEN [err |-> "none", date |-> [k \in DOMAIN jd |-> DateFromAllLeap(jd[k])]]
    ELSE [err |-> "none", date |-> [k \in DOMAIN jd |-> DateFrom360Day(jd[k])]]

(***************************************************************************)
(* The dates converted: a sample of years around the eras, the calendar    *)
(* switch of 1582 and the century rules; every month; the days at the      *)
(* ends of the months and of the switch; times at midnight, at noon and    *)
(* in the last seconds of the day.                                         *)
(***************************************************************************)
Years == {-1, 0, 1, 1500, 1582, 1900, 2000}
Months == 1 .. 12
Days == {1, 4, 5, 14, 15, 28, 29, 30, 31}
Clock == {<<0, 0, 0>>, <<12, 0, 0>>, <<23, 59, 55>>, <<23, 59, 56>>}

Date(y, m, d, c) ==
    [year |-> y, month |-> m, day |-> d,
     hour |-> c[1], minute |-> c[2], second |-> c[3], microsecond |-> 0]

SampleDates == {Date(y, m, d, c) : y \in Years, m \in Months, d \in Days, c \in Clock}

\* the second date of a batch: one of the Julian calendar, one of the switch, one
\* of the Gregorian calendar
Companions == {Date(1500, 1, 1, <<0, 0, 0>>), Date(1582, 10, 10, <<0, 0, 0>>),
               Date(2000, 1, 1, <<0, 0, 0>>)}

DateBatches == {<<d>> : d \in SampleDates}
                  \cup {<<d, c>> : d \in SampleDates, c \in Companions}

CalInit ==
    /\ calendar \in calendars
    /\ dates \in DateBatches
    /\ jds = <<>>
    /\ outs = <<>>
    /\ cpc = "input"
    /\ cerr = "none"
    /\ nctime = <<>>
    /\ times = <<>>
    /\ select = "exact"
    /\ index = <<>>
    /\ ipc = "idle"
    /\ ierr = "none"
    /\ path = "none"
    /\ args = [unit_string |-> NoUnitString, calendar |-> "standard"]
    /\ self = NoUtime
    /\ udates = <<>>
    /\ time_value = <<>>
    /\ back = <<>>
    /\ upc = "idle"
    /\ uerr = "none"

\* the dates are converted to Julian days, or rejected
DateToDayCount ==
    /\ cpc = "input"
    /\ LET r == ToDayCount(dates, calendar)
       IN  /\ jds' = r.jd
           /\ cerr' = r.err
           /\ cpc' = IF r.err = "none" THEN "counted" ELSE "rejected"
    /\ UNCHANGED <<calendar, dates, outs>>
    /\ UNCHANGED ivars
    /\ UNCHANGED uvars

\* the Julian days are converted back to dates, or the conversion fails
DayCountToDate ==
    /\ cpc = "counted"
    /\ LET r == FromDayCount(jds, calendar)
       IN  /\ outs' = r.date
           /\ cerr' = r.err
           /\ cpc' = IF r.err = "none" THEN "dated" ELSE "failed"
    /\ UNCHANGED <<calendar, dates, jds>>
    /\ UNCHANGED ivars
    /\ UNCHANGED uvars

CalNext == DateToDayCount \/ DayCountToDate

CalSpec == CalInit /\ [][CalNext]_vars

(***************************************************************************)
(* utime: the constructor, date2num and num2date.  A time value is kept as *)
(* a product, the day count [w, t] it stands for times the factor per day  *)
(* it was multiplied by, [w, t, per]: 86400000000 times a day count is     *)
(* beyond the integers of the model.  A factor is an exact constant        *)
(* n / d * 10^e.                                                           *)
(***************************************************************************)
RECURSIVE Gcd(_, _)
Gcd(a, b) == IF b = 0 THEN a ELSE Gcd(b, a % b)

RECURSIVE StripTens(_, _)
StripTens(n, e) == IF n % 10 = 0 THEN StripTens(n \div 10, e + 1) ELSE <<n, e>>

RECURSIVE Pow10(_)
Pow10(e) == IF e = 0 THEN 1 ELSE 10 * Pow10(e - 1)

\* the constant n / d * 10^e, n and d positive, made without common factor and
\* without trailing zeros
Dec(n, d, e) ==
    LET g == Gcd(n, d)
        a == StripTens(n \div g, 0)
        b == StripTens(d \div g, 0)
    IN  [n |-> a[1], d |-> b[1], e |-> e + a[2] - b[2]]

\* the float literal m * 10^e
E(m, e) == Dec(m, 1, e)

DecTimes(a, b) == Dec(a.n * b.n, a.d * b.d, a.e + b.e)
DecOver(a, b) == Dec(a.n * b.d, a.d * b.n, a.e - b.e)
IsOne(a) == a.n = 1 /\ a.d = 1 /\ a.e = 0

\* the integer x times the constant c, truncated
ScaleInt(x, c) ==
    IF c.e >= 0 THEN TruncDiv(x * c.n * Pow10(c.e), c.d)
    ELSE TruncDiv(TruncDiv(x * c.n, c.d), Pow10(-c.e))

\* the day count v times the constant c
ScaleDays(v, c) ==
    LET k == ScaleInt(TicksPerDay, c)
    IN  JD(v.w * (k \div TicksPerDay), v.w * (k % TicksPerDay) + ScaleInt(v.t, c))

units == {"days", "hours", "minutes", "seconds", "day", "hour", "minute", "second",
          "milliseconds", "millisecond", "microseconds", "microsecond"}

\* date2num: the factor jdelta is multiplied by
UnitsPerDay(u) ==
    IF u \in {"microseconds", "microsecond"} THEN DecTimes(E(86400, 0), E(1, 6))
    ELSE IF u \in {"milliseconds", "millisecond"} THEN DecTimes(E(86400, 0), E(1, 3))
    ELSE IF u \in {"second", "seconds"} THEN E(86400, 0)
    ELSE IF u \in {"minute", "minutes"} THEN E(1440, 0)
    ELSE IF u \in {"hour", "hours"} THEN E(24, 0)
    ELSE E(1, 0)

\* a variant of UnitsPerMinute: the offset subtracted in minutes whatever the units
UnitsPerMinuteAsMinutes(u) == E(1, 0)

\* date2num: the factor self.tzoffset, in minutes, is multiplied by
UnitsPerMinute(u) ==
    IF u \in {"microseconds", "microsecond"} THEN DecTimes(E(60, 0), E(1, 6))
    ELSE IF u \in {"milliseconds", "millisecond"} THEN DecTimes(E(60, 0), E(1, 3))
    ELSE IF u \in {"second", "seconds"} THEN E(60, 0)
    ELSE IF u \in {"minute", "minutes"} THEN E(1, 0)
    ELSE IF u \in {"hour", "hours"} THEN DecOver(E(1, 0), E(60, 0))
    ELSE DecOver(E(1, 0), E(1440, 0))

\* num2date: the constant time_value is divided by (864 * 10^8 is 86400000000.)
UnitsPerDayDivisor(u) ==
    IF u \in {"microseconds", "microsecond"} THEN E(864, 8)
    ELSE IF u \in {"milliseconds", "millisecond"} THEN E(86400000, 0)
    ELSE IF u \in {"second", "seconds"} THEN E(86400, 0)
    ELSE IF u \in {"minute", "minutes"} THEN E(1440, 0)
    ELSE IF u \in {"hour", "hours"} THEN E(24, 0)
    ELSE E(1, 0)

\* date2num: jdelta * factor - self.tzoffset * factor of a minute
DayDeltaToUnits(jdelta, u, tzoffset) ==
    LET per == UnitsPerDay(u)
        minute == ScaleInt(TicksPerDay, DecOver(UnitsPerMinute(u), per))
        v == JD(jdelta.w, jdelta.t - tzoffset * minute)
    IN  [w |-> v.w, t |-> v.t, per |-> per]

\* num2date: time_value / divisor + self.tzoffset / 1440.
UnitsToDayDelta(v, u, tzoffset) ==
    LET ratio == DecOver(v.per, UnitsPerDayDivisor(u))
        days == IF IsOne(ratio) THEN [w |-> v.w, t |-> v.t] ELSE ScaleDays(v, ratio)
    IN  JD(days.w, days.t + tzoffset * ScaleInt(TicksPerDay, DecOver(E(1, 0), E(1440, 0))))

\* a variant of OriginRefused that refuses no origin
OriginRefusedNever(cal, origin) == FALSE

\* utime.__init__: a leap day as reference time in the noleap calendar, a day
\* after the 30th in the 360_day calendar
OriginRefused(cal, origin) ==
    \/ cal \in {"noleap", "365_day"} /\ origin.month = 2 /\ origin.day = 29
    \/ cal = "360_day" /\ origin.day > 30

\* utime.__init__ on the parsed unit string [units, tzoffset, origin]: [err, self]
utime_init(unit_string, cal) ==
    LET origin == unit_string.origin
        mixed == JulianDayFromDate(<<origin>>, cal)
        jd0 == IF cal \in {"noleap", "365_day"} THEN NoLeapDayFromDate(origin)
               ELSE IF cal \in {"all_leap", "366_day"} THEN AllLeapFromDate(origin)
               ELSE IF cal = "360_day" THEN Day360FromDate(origin)
               ELSE mixed.jd[1]
    IN  IF cal \notin calendars THEN [err |-> "UnknownCalendar", self |-> NoUtime]
        \* _dateparse
        ELSE IF unit_string.units \notin units
            THEN [err |-> "InvalidUnit", self |-> NoUtime]
        ELSE IF OriginRefused(cal, origin)
            THEN [err |-> "InvalidDate", self |-> NoUtime]
        ELSE IF cal \in {"julian", "standard", "gregorian", "proleptic_gregorian"} /\ mixed.err # "none"
            THEN [err |-> mixed.err, self |-> NoUtime]
        ELSE [err |-> "none",
              self |-> [calendar |-> cal, units |-> unit_string.units,
                        tzoffset |-> unit_string.tzoffset, origin |-> origin,
                        jd0 |-> jd0]]

\* utime.date2num on a sequence of dates: [err, num]
date2num(slf, dts) ==
    LET r == ToDayCount(dts, slf.calendar)
    IN  IF r.err # "none" THEN [err |-> r.err, num |-> <<>>]
        ELSE [err |-> "none",
              num |-> [k \in DOMAIN dts |->
                          DayDeltaToUnits(JD(r.jd[k].w - slf.jd0.w, r.jd[k].t - slf.jd0.t),
                                          slf.units, slf.tzoffset)]]

\* utime.num2date on a sequence of time values: [err, date]
num2date(slf, tv) ==
    FromDayCount([k \in DOMAIN tv |->
                     LET jdelta == UnitsToDayDelta(tv[k], slf.units, slf.tzoffset)
                     IN  JD(slf.jd0.w + jdelta.w, slf.jd0.t + jdelta.t)],
                 slf.calendar)

(***************************************************************************)
(* The instances constructed and the dates given to them: every calendar   *)
(* and unit name and one unknown of each; origins that the calendars       *)
(* accept or refuse; offsets west and east of UTC.                         *)
(***************************************************************************)
CalendarNames == calendars \cup {"lunar"}
UnitNames == units \cup {"weeks"}
Offsets == {-90, 0, 60}
Origins == {Date(2000, 1, 1, <<0, 0, 0>>), Date(2000, 2, 29, <<12, 0, 0>>),
            Date(2000, 1, 31, <<0, 0, 0>>), Date(1582, 10, 10, <<0, 0, 0>>),
            Date(1, 1, 1, <<0, 0, 0>>)}

UnitStrings ==
    {[units |-> u, tzoffset |-> z, origin |-> o] :
        u \in UnitNames, z \in Offsets, o \in Origins}

UtimeDates == Origins \cup {Date(1500, 2, 29, <<0, 0, 0>>), Date(2001, 2, 28, <<23, 59, 55>>)}

UtimeBatches == {<<d>> : d \in UtimeDates}
                   \cup {<<Date(2000, 6, 15, <<12, 0, 0>>), d>> : d \in UtimeDates}

UtimeInit ==
    /\ args \in {[unit_string |-> us, calendar |-> cal] :
                    us \in UnitStrings, cal \in CalendarNames}
    /\ udates \in UtimeBatches
    /\ self = NoUtime
    /\ time_value = <<>>
    /\ back = <<>>
    /\ upc = "new"
    /\ uerr = "none"
    /\ nctime = <<>>
    /\ times = <<>>
    /\ select = "exact"
    /\ index = <<>>
    /\ ipc = "idle"
    /\ ierr = "none"
    /\ path = "none"
    /\ calendar = "standard"
    /\ dates = <<>>
    /\ jds = <<>>
    /\ outs = <<>>
    /\ cpc = "idle"
    /\ cerr = "none"

Constructed == upc \in {"ready", "numbered", "refused", "dated", "undated"}

\* utime(unit_string, calendar)
Construct ==
    /\ upc = "new"
    /\ LET r == utime_init(args.unit_string, args.calendar)
       IN  /\ self' = r.self
           /\ uerr' = r.err
           /\ upc' = IF r.err = "none" THEN "ready" ELSE "failed"
    /\ UNCHANGED <<args, udates, time_value, back>>
    /\ UNCHANGED <<ivars, cvars>>

\* a variant of Date2Num that caches the Julian day of the first date as _jd0
Date2NumRecaching ==
    /\ Constructed
    /\ LET r == date2num(self, udates)
       IN  /\ time_value' = r.num
           /\ uerr' = r.err
           /\ upc' = IF r.err = "none" THEN "numbered" ELSE "refused"
           /\ self' = IF r.err = "none"
                         THEN [self EXCEPT !.jd0 = ToDayCount(udates, self.calendar).jd[1]]
                         ELSE self
    /\ UNCHANGED <<args, udates, back>>
    /\ UNCHANGED <<ivars, cvars>>

\* self.date2num(date)
Date2Num ==
    /\ Constructed
    /\ LET r == date2num(self, udates)
       IN  /\ time_value' = r.num
           /\ uerr' = r.err
           /\ upc' = IF r.err = "none" THEN "numbered" ELSE "refused"
    /\ UNCHANGED <<args, self, udates, back>>
    /\ UNCHANGED <<ivars, cvars>>

\* self.num2date(time_value), of the time values date2num returned
Num2Date ==
    /\ Constructed
    /\ time_value # <<>>
    /\ LET r == num2date(self, time_value)
       IN  /\ back' = r.date
           /\ uerr' = r.err
           /\ upc' = IF r.err = "none" THEN "dated" ELSE "undated"
    /\ UNCHANGED <<args, self, udates, time_value>>
    /\ UNCHANGED <<ivars, cvars>>

UtimeNext == Construct \/ Date2Num \/ Num2Date

UtimeSpec == UtimeInit /\ [][UtimeNext]_vars

(***************************************************************************)
(* Properties of the calendar conversions.                                 *)
(***************************************************************************)
\* a date before 1582-10-05, a date of the Julian calendar in the mixed one
BeforeSwitch(d) ==
    d.year < 1582 \/ (d.year = 1582 /\ (d.month < 10 \/ (d.month = 10 /\ d.day < 5)))

\* a date of 1582-10-05 .. 1582-10-14, whatever the time
SwitchDay(d) == d.year = 1582 /\ d.month = 10 /\ d.day \in 5 .. 14

\* strictly between 1582-10-05 00:00:00 and 1582-10-15 00:00:00
InGap(d) == SwitchDay(d) /\ (d.day > 5 \/ TimeOfDay(d) > 0)

JulianLeap(y) == y % 4 = 0
GregorianLeap(y) == y % 4 = 0 /\ (y % 100 # 0 \/ y % 400 = 0)

\* the days of month m of year y in a calendar, d being the date asked about
DaysInMonth(cal, d) ==
    IF cal = "360_day" THEN 30
    ELSE IF d.month \in {4, 6, 9, 11} THEN 30
    ELSE IF d.month # 2 THEN 31
    ELSE IF cal \in {"noleap", "365_day"} THEN 28
    ELSE IF cal \in {"all_leap", "366_day"} THEN 29
    ELSE IF cal = "julian" \/ (cal \in MixedCalendars /\ BeforeSwitch(d))
        THEN (IF JulianLeap(d.year) THEN 29 ELSE 28)
    ELSE (IF GregorianLeap(d.year) THEN 29 ELSE 28)

\* a date of the calendar: a day of the month, and in the mixed calendar none of
\* the days of the switch
Accepts(cal, d) ==
    /\ d.day <= DaysInMonth(cal, d)
    /\ cal \in MixedCalendars => ~SwitchDay(d)

\* the same year, month, day, hour and minute, and a second within 0.1 s
SameDateTime(d, o) ==
    /\ o.year = d.year /\ o.month = d.month /\ o.day = d.day
    /\ o.hour = d.hour /\ o.minute = d.minute
    /\ LET us == (o.second - d.second) * 1000000 + o.microsecond - d.microsecond
       IN  -100000 <= us /\ us <= 100000

OneDate == Len(dates) = 1
Converted == cpc \in {"counted", "dated", "failed"}

\* C1: for every calendar and every date the calendar accepts, the date computed
\* back from the date's Julian day has the same year, month, day, hour and
\* minute and a second within 0.1 s.
C1_RoundTrip ==
    (OneDate /\ cpc \in {"dated", "failed"} /\ Accepts(calendar, dates[1])) =>
        cpc = "dated" /\ SameDateTime(dates[1], outs[1])

\* C9: in the mixed calendar every date strictly between 1582-10-05 and
\* 1582-10-15 is rejected with InvalidDate, alone or in a batch, and no Julian
\* day is returned.
C9_GapRejected ==
    (calendar \in MixedCalendars /\ cpc # "input"
        /\ \E k \in DOMAIN dates : InGap(dates[k])) =>
        cpc = "rejected" /\ cerr = "InvalidDate" /\ jds = <<>>

\* the last seconds of 1582-10-14, alone, rejected under 'gregorian'
C9_Witness ==
    /\ calendar = "gregorian" /\ OneDate /\ cpc = "rejected" /\ cerr = "InvalidDate"
    /\ dates[1] = Date(1582, 10, 14, <<23, 59, 56>>)

\* C10: in the mixed calendar a single date is rejected only if it is strictly
\* between 1582-10-05 and 1582-10-15: 1582-10-05 00:00:00 is converted in the
\* Julian calendar and 1582-10-15 00:00:00 in the Gregorian one, both to 2299160.5.
C10_GapExclusive ==
    (calendar \in MixedCalendars /\ OneDate /\ cpc # "input") =>
        /\ cpc = "rejected" => InGap(dates[1])
        /\ dates[1] \in {Date(1582, 10, 5, <<0, 0, 0>>), Date(1582, 10, 15, <<0, 0, 0>>)} =>
              Converted /\ jds = <<JulianEnd>>

\* C11: 'standard' and 'gregorian' name the same calendar: the same dates give
\* the same Julian days or the same error, and the same Julian days the same
\* dates, of the same kind, or the same error.
C11_AliasesAgree ==
    (calendar = "standard" /\ cpc # "input") =>
        /\ ToDayCount(dates, "gregorian") =
              [err |-> (IF cpc = "rejected" THEN cerr ELSE "none"), jd |-> jds]
        /\ cpc \in {"dated", "failed"} =>
              FromDayCount(jds, "gregorian") = [err |-> cerr, date |-> outs]

\* on or after 1582-10-15 00:00:00
OnOrAfterSwitch(jd) == ~JdLess(jd, JulianEnd)

\* C12: every date returned is a real datetime exactly when the calendar is
\* 'proleptic_gregorian', or is the mixed calendar and the date's own Julian
\* day is on or after 1582-10-15.
C12_KindByInstant ==
    cpc = "dated" =>
        \A k \in DOMAIN outs :
            outs[k].real = (\/ calendar = "proleptic_gregorian"
                            \/ calendar \in MixedCalendars /\ OnOrAfterSwitch(jds[k]))

\* d is before e in civil time
Earlier(d, e) ==
    \/ d.year < e.year
    \/ d.year = e.year /\ d.month < e.month
    \/ d.year = e.year /\ d.month = e.month /\ d.day < e.day
    \/ d.year = e.year /\ d.month = e.month /\ d.day = e.day
          /\ TimeOfDay(d) < TimeOfDay(e)

\* dates after d: the rest of d's month, the month after, the first days of the
\* later years, and the first day of the Gregorian calendar
LaterDates(d) ==
    {e \in {Date(d.year, m, dd, c) : m \in {d.month, d.month + 1} \cap Months,
                                     dd \in Days, c \in Clock}
          \cup {Date(y, 1, 1, <<0, 0, 0>>) : y \in Years}
          \cup {Date(1582, 10, 15, <<0, 0, 0>>)} :
        Earlier(d, e)}

FixedLengthCalendars == {"noleap", "365_day", "all_leap", "366_day", "360_day"}

\* the days of a year in the calendars of years of one length
YearLength(cal) ==
    IF cal \in {"noleap", "365_day"} THEN 365
    ELSE IF cal \in {"all_leap", "366_day"} THEN 366
    ELSE 360

\* the Julian day of the single date d, n days later than jd
DaysLater(cal, d, jd, n) ==
    ToDayCount(<<d>>, cal) = [err |-> "none", jd |-> <<JD(jd.w + n, jd.t)>>]

\* C16: in the calendars of fixed year length the same day and time of the
\* next year is 365 (noleap), 366 (all_leap) or 360 (360_day) days later, and
\* in the 360_day calendar the same day of the next month is 30 days later.
C16_FixedYearLengths ==
    (OneDate /\ cpc = "counted" /\ calendar \in FixedLengthCalendars
        /\ Accepts(calendar, dates[1])) =>
        /\ DaysLater(calendar, [dates[1] EXCEPT !.year = @ + 1], jds[1],
                     YearLength(calendar))
        /\ (calendar = "360_day" /\ dates[1].month < 12) =>
              DaysLater(calendar, [dates[1] EXCEPT !.month = @ + 1], jds[1], 30)

\* February 30 of the 360_day calendar, March 30 one month later, and
\* February 29 of the all_leap calendar
C16_Witness ==
    /\ OneDate /\ cpc = "counted"
    /\ \/ calendar = "360_day" /\ dates[1].month = 2 /\ dates[1].day = 30
       \/ calendar = "all_leap" /\ dates[1].month = 2 /\ dates[1].day = 29
       \/ calendar = "365_day" /\ dates[1].month = 12 /\ dates[1].day = 31

\* the day of the year of a month and day in a year that is not leap
NonLeapDayOfYear(month, day) ==
    <<0, 31, 59, 90, 120, 151, 181, 212, 243, 273, 304, 334>>[month] + day

\* C17: in the mixed calendar the day of the year of a date of the Julian
\* calendar counts February 29 in every year divisible by 4, the century
\* years too.
C17_JulianLeapDayOfYear ==
    (calendar \in MixedCalendars /\ OneDate /\ cpc = "dated"
        /\ JdLess(jds[1], JulianEnd) /\ ~outs[1].real /\ outs[1].year > 0) =>
        outs[1].dayofyr = NonLeapDayOfYear(outs[1].month, outs[1].day)
                             + (IF JulianLeap(outs[1].year) /\ outs[1].month > 2
                                    THEN 1 ELSE 0)

\* on or after 1582-10-15
AfterSwitch(d) == ~BeforeSwitch(d) /\ ~SwitchDay(d)

Straddles ==
    /\ \E k \in DOMAIN dates : BeforeSwitch(dates[k])
    /\ \E k \in DOMAIN dates : AfterSwitch(dates[k])

\* C18 as stated: in the mixed calendar a batch with a date before 1582-10-05
\* and a date on or after 1582-10-15 fails with AmbiguousCalendarBranch and no
\* Julian day is returned.
C18_StraddleAmbiguous ==
    (calendar \in MixedCalendars /\ cpc # "input" /\ Straddles) =>
        cpc = "rejected" /\ cerr = "AmbiguousCalendarBranch" /\ jds = <<>>

\* C18 amended: in the mixed calendar a batch with a date before 1582-10-05 and
\* a date on or after 1582-10-15 fails with the error of a date in the gap,
\* InvalidDate, and no Julian day is returned.
C18_StraddleRejected ==
    (calendar \in MixedCalendars /\ cpc # "input" /\ Straddles) =>
        cpc = "rejected" /\ cerr = "InvalidDate" /\ jds = <<>>

\* two dates of the calendar, neither in the gap, rejected together
C18_Witness ==
    /\ calendar = "standard" /\ cpc = "rejected" /\ Straddles
    /\ \A k \in DOMAIN dates : Accepts(calendar, dates[k])
    /\ dates[2] = Date(1500, 1, 1, <<0, 0, 0>>)

(***************************************************************************)
(* Properties of utime.                                                    *)
(***************************************************************************)
LeapDay(d) == d.month = 2 /\ d.day = 29

\* the calendar has no such day: February 29 in noleap, a 31st in 360_day
BeyondDayLimit(cal, d) ==
    \/ cal \in {"noleap", "365_day"} /\ LeapDay(d)
    \/ cal = "360_day" /\ d.day > 30

KnownArguments == args.calendar \in calendars /\ args.unit_string.units \in units

\* C14: a reference date beyond the day limits of the noleap or 360_day
\* calendar makes the constructor fail with InvalidDate, and a date beyond
\* them anywhere in a batch makes date2num fail with InvalidDate; no instance
\* and no time value is returned.
C14_DayLimits ==
    /\ (upc # "new" /\ KnownArguments
          /\ BeyondDayLimit(args.calendar, args.unit_string.origin)) =>
          upc = "failed" /\ uerr = "InvalidDate" /\ self = NoUtime
    /\ (Constructed /\ upc # "ready"
          /\ \E k \in DOMAIN udates : BeyondDayLimit(self.calendar, udates[k])) =>
          upc = "refused" /\ uerr = "InvalidDate" /\ time_value = <<>>

\* February 29 as the second date of a batch, refused by a 365_day instance
C14_Witness ==
    /\ upc = "refused" /\ self.calendar = "365_day" /\ uerr = "InvalidDate"
    /\ Len(udates) = 2 /\ LeapDay(udates[2]) /\ ~LeapDay(udates[1])

\* units per day: days 1, hours 24, minutes 1440, seconds 86400, milliseconds
\* 86400000, microseconds 86400000000
UnitFactor(u) ==
    IF u \in {"day", "days"} THEN E(1, 0)
    ELSE IF u \in {"hour", "hours"} THEN E(24, 0)
    ELSE IF u \in {"minute", "minutes"} THEN E(144, 1)
    ELSE IF u \in {"second", "seconds"} THEN E(864, 2)
    ELSE IF u \in {"millisecond", "milliseconds"} THEN E(864, 5)
    ELSE E(864, 8)

\* the Julian day of the k-th date given less the Julian day of the origin
DayDelta(k) ==
    LET jd == ToDayCount(udates, self.calendar).jd[k]
    IN  JD(jd.w - self.jd0.w, jd.t - self.jd0.t)

\* C15: the time value date2num returns is the day difference times the
\* factor of the units less the offset in the same units; the scaling of
\* num2date gives the day difference back; and with no offset the time value
\* of the origin is 0.
C15_ScalingCancels ==
    upc \in {"numbered", "dated", "undated"} =>
        \A k \in DOMAIN udates :
            LET v == time_value[k]
                shifted == JD(DayDelta(k).w,
                              DayDelta(k).t - self.tzoffset * TicksPerMinute)
            IN  /\ IsOne(DecOver(v.per, UnitFactor(self.units)))
                /\ v.w = shifted.w /\ v.t = shifted.t
                /\ UnitsToDayDelta(v, self.units, self.tzoffset) = DayDelta(k)
                /\ (self.tzoffset = 0 /\ udates[k] = self.origin) =>
                      (v.w = 0 /\ v.t = 0)

\* microseconds since the origin, with an offset: a later date and the origin
C15_Witness ==
    /\ upc = "dated" /\ self.units = "microseconds" /\ self.tzoffset = -90
    /\ Len(udates) = 2 /\ udates[2] = self.origin
    /\ time_value[2].w = 0 /\ time_value[2].t = 90 * TicksPerMinute
    /\ time_value[1].w > 0

\* C19: once constructed, a utime instance keeps its calendar, units,
\* tzoffset, origin and _jd0 through every call of date2num and num2date, and
\* the caller's dates are left as they were.
C19_EpochImmutable ==
    [][Constructed => (self' = self /\ udates' = udates)]_vars

\* num2date has failed after date2num succeeded, and the instance is as constructed
C19_Witness ==
    /\ upc = "undated" /\ uerr = "ValueError"
    /\ self = utime_init(args.unit_string, args.calendar).self
    /\ self.jd0 = ToDayCount(<<self.origin>>, self.calendar).jd[1]

(***************************************************************************)
(* Properties of time2index.                                               *)
(***************************************************************************)
IndexReturned == ipc = "done"
IndexEnded == ipc \in {"done", "error"}
Last(nct) == nct[Len(nct)]
Distance(a, b) == IF a < b THEN b - a ELSE a - b
InVariable(i) == i \in 0 .. (Len(nctime) - 1)

\* C2: with select 'nearest' every returned index minimises |nctime[i] - time|
\* over the indices of the time variable.
C2_NearestMinimises ==
    (IndexReturned /\ select = "nearest") =>
        \A k \in DOMAIN times :
            /\ InVariable(index[k])
            /\ \A j \in DOMAIN nctime :
                  Distance(At(nctime, index[k]), times[k]) <= Distance(nctime[j], times[k])

\* C3: with select 'nearest' a time at the midpoint of two adjacent times of the
\* variable resolves to the higher of the two indices.
C3_MidpointHigher ==
    (IndexReturned /\ select = "nearest") =>
        \A k \in DOMAIN times : \A i \in 1 .. (Len(nctime) - 1) :
            2 * times[k] = At(nctime, i - 1) + At(nctime, i) => index[k] = i

\* C4: the k-th index of a batch is the index time2index returns for the k-th
\* time alone.
C4_BatchIndependent ==
    IndexReturned =>
        \A k \in DOMAIN times :
            LET alone == time2index(<<times[k]>>, nctime, select)
            IN  alone.err = "none" /\ alone.index[1] = index[k]

\* C5: with select 'exact' and every time within the variable's range, the
\* index of the equal time is returned when every time of the batch has one,
\* and NoExactMatch is raised, with no index returned, otherwise.
C5_Exact ==
    (IndexEnded /\ select = "exact"
        /\ \A k \in DOMAIN times : nctime[1] <= times[k] /\ times[k] <= Last(nctime)) =>
        IF \A k \in DOMAIN times : \E j \in DOMAIN nctime : nctime[j] = times[k]
            THEN /\ ipc = "done"
                 /\ DOMAIN index = DOMAIN times
                 /\ \A k \in DOMAIN times :
                       InVariable(index[k]) /\ At(nctime, index[k]) = times[k]
            ELSE ipc = "error" /\ ierr = "NoExactMatch" /\ index = <<>>

\* the non-uniform fallback: an exact match found by bisection after the guess failed
C5_Witness ==
    /\ ipc = "done" /\ select = "exact" /\ path = "bisect"
    /\ \E k \in DOMAIN times : index[k] = 2 /\ At(nctime, 2) = times[k]

\* C6: with select 'before' and every time at or after the first time of the
\* variable, the largest index whose time is <= the queried time is returned.
C6_Before ==
    (IndexEnded /\ select = "before" /\ \A k \in DOMAIN times : times[k] >= nctime[1]) =>
        /\ ipc = "done"
        /\ DOMAIN index = DOMAIN times
        /\ \A k \in DOMAIN times :
              /\ InVariable(index[k])
              /\ At(nctime, index[k]) <= times[k]
              /\ \A j \in DOMAIN nctime : nctime[j] <= times[k] => j - 1 <= index[k]

\* a time beyond the last one, and one strictly between two times, resolved by bisection
C6_Witness ==
    /\ ipc = "done" /\ select = "before" /\ path = "bisect" /\ Len(times) = 2
    /\ times[1] > Last(nctime) /\ index[1] = Len(nctime) - 1
    /\ At(nctime, index[2]) < times[2] /\ times[2] < Last(nctime)

\* C7: with select 'after' and every time at or before the last time of the
\* variable, the smallest index whose time is >= the queried time is returned.
C7_After ==
    (IndexEnded /\ select = "after" /\ \A k \in DOMAIN times : times[k] <= Last(nctime)) =>
        /\ ipc = "done"
        /\ DOMAIN index = DOMAIN times
        /\ \A k \in DOMAIN times :
              /\ InVariable(index[k])
              /\ At(nctime, index[k]) >= times[k]
              /\ \A j \in DOMAIN nctime : nctime[j] >= times[k] => j - 1 >= index[k]

\* a time before the first one, and one strictly between two times, resolved by bisection
C7_Witness ==
    /\ ipc = "done" /\ select = "after" /\ path = "bisect" /\ Len(times) = 2
    /\ times[1] < nctime[1] /\ index[1] = 0
    /\ At(nctime, index[2]) > times[2] /\ times[2] > nctime[1]

SomeBefore == \E k \in DOMAIN times : times[k] < nctime[1]
SomeAfter == \E k \in DOMAIN times : times[k] > Last(nctime)

\* C8 as stated: a time below the first with 'before' or 'exact' raises
\* OutOfRangeBefore, a time above the last with 'after' or 'exact' raises
\* OutOfRangeAfter, and no index is returned.
C8_OutOfRangeAsStated ==
    IndexEnded =>
        /\ (select \in {"before", "exact"} /\ SomeBefore) =>
              (ipc = "error" /\ ierr = "OutOfRangeBefore" /\ index = <<>>)
        /\ (select \in {"after", "exact"} /\ SomeAfter) =>
              (ipc = "error" /\ ierr = "OutOfRangeAfter" /\ index = <<>>)

\* C8 amended: a time below the first with 'before' or 'exact' raises
\* OutOfRangeBefore; a time above the last raises OutOfRangeAfter with 'after',
\* and with 'exact' when no time of the batch is below the first; no index is
\* returned in either case.
C8_OutOfRange ==
    IndexEnded =>
        /\ (select \in {"before", "exact"} /\ SomeBefore) =>
              (ipc = "error" /\ ierr = "OutOfRangeBefore" /\ index = <<>>)
        /\ (SomeAfter /\ (select = "after" \/ (select = "exact" /\ ~SomeBefore))) =>
              (ipc = "error" /\ ierr = "OutOfRangeAfter" /\ index = <<>>)

\* an 'exact' batch with a time on either side of the variable: the first check wins
C8_Witness ==
    /\ ipc = "error" /\ select = "exact" /\ SomeBefore /\ SomeAfter
    /\ ierr = "OutOfRangeBefore"

\* C20: every index time2index returns is an index of the time variable,
\* 0 .. N-1, whatever the selection method and the path taken.
C20_IndexInRange ==
    IndexReturned =>
        /\ DOMAIN index = DOMAIN times
        /\ \A k \in DOMAIN times : InVariable(index[k])

\* 'nearest' with a time before the first and a time after the last time
C20_Witness ==
    /\ IndexReturned /\ select = "nearest" /\ Len(times) = 2
    /\ times[1] < nctime[1] /\ index[1] = 0
    /\ times[2] > Last(nctime) /\ index[2] = Len(nctime) - 1

\* C21: a select other than 'exact', 'before', 'after' and 'nearest' never
\* yields an index: for every time variable and every batch of times,
\* time2index ends with the error for a bad select and returns nothing, also
\* when the guessed index is in range and is the nearest index.
C21_UnknownSelectFails ==
    (IndexEnded /\ select \notin {"exact", "before", "after", "nearest"}) =>
        ipc = "error" /\ ierr = "BadSelect" /\ index = <<>> /\ path = "bisect"

\* an unknown select with times that are all in the variable, where the
\* guessed index is in range and passes the verification of 'nearest'
C21_Witness ==
    /\ ipc = "error" /\ select = "closest" /\ ierr = "BadSelect"
    /\ \A k \in DOMAIN times : \E j \in DOMAIN nctime : nctime[j] = times[k]
    /\ CheckNearest(GuessIndex(times, nctime, select), times, nctime)
    /\ \A k \in DOMAIN times : InVariable(GuessIndex(times, nctime, select)[k])

=============================================================================
